---- MODULE Spec2Model ----
(***************************************************************************)
(* Model of the pixnet blog crawler: the three bounded-concurrency fetch   *)
(* loops (PageCrawler._fetch_page, PostCrawler._fetch_post,                *)
(* PostMetadataExtractor._fetch_and_extract), the listing post-processing  *)
(* (PageCrawler._sort_and_reindex), the datetime normaliser                *)
(* (dom.extract_datetime), the JSON Lines store (store.write_jsonl,        *)
(* store.read_metadata) and the content parser (PostCrawler._parse_post,   *)
(* Post.parse_dom_node, Post._apply_fallback_strategies).                  *)
(*                                                                         *)
(* Spec: one behaviour is one run of one crawler object: Init picks the    *)
(* crawler class and its constructor arguments, every task is one          *)
(* coroutine handed to asyncio.gather, and the environment picks each HTTP *)
(* response.  SpecStore: one list written and read back.  SpecParse: one   *)
(* document parsed into a Post.                                            *)
(***************************************************************************)
EXTENDS Integers, Sequences, FiniteSets, TLC

----------------------------------------------------------------------------
(* Bounds of the model. *)

\* number of coroutines handed to asyncio.gather (pages, posts or urls)
NumTasks == 2
\* largest retries argument tried
MaxRetries == 2
\* largest concurrency argument tried
MaxConcurrency == 2

Tasks == 1..NumTasks

----------------------------------------------------------------------------
(* dom.py: timestamps.  A datetime is a wall-clock reading in hours, and,  *)
(* when it is timezone-aware, its UTC offset in hours.                     *)

\* TAIPEI_TZ = timezone(timedelta(hours=8))
TAIPEI_TZ == 8

NoneDt == [some |-> FALSE, wall |-> 0, aware |-> FALSE, off |-> 0]
NaiveDt(w) == [some |-> TRUE, wall |-> w, aware |-> FALSE, off |-> 0]
AwareDt(w, o) == [some |-> TRUE, wall |-> w, aware |-> TRUE, off |-> o]

\* The strings found in markup, by the format they are written in:
\*   "iso"    ISO 8601, tz one of "" (no offset), "Z", "+08:00"
\*   "ymdhms" YYYY-MM-DD HH:MM:SS          "ymd"  YYYY-MM-DD
\*   "zh"     <month>月<day>週<weekday><year><hour>:<minute>; valid is false
\*            when the fields are no calendar date (day 32)
\*   "junk"   any other text              "empty" no node, or no text
RawDt(f, w, tz, v) == [fmt |-> f, wall |-> w, tz |-> tz, valid |-> v]

\* datetime.fromisoformat(dt_str.replace("Z", "+00:00"))
fromisoformat(raw) ==
    IF raw.tz = "" THEN NaiveDt(raw.wall)
    ELSE IF raw.tz = "Z" THEN AwareDt(raw.wall, 0)
    ELSE AwareDt(raw.wall, 8)

extract_datetime(raw) ==
    IF raw.fmt = "empty" THEN NoneDt
    ELSE IF raw.fmt = "iso" THEN fromisoformat(raw)
    ELSE IF raw.fmt = "ymdhms" THEN NaiveDt(raw.wall)
    ELSE IF raw.fmt = "ymd" THEN NaiveDt(raw.wall)
    ELSE IF raw.fmt = "zh"
         THEN IF raw.valid THEN AwareDt(raw.wall, TAIPEI_TZ) ELSE NoneDt
    ELSE NoneDt

\* The instant two aware datetimes are compared by; naive ones compare by
\* their wall-clock reading.
Instant(dt) == dt.wall - dt.off

\* datetime.__lt__ raises TypeError for one naive and one aware operand.
CompareRaises(a, b) == a.aware # b.aware

DtLess(a, b) == Instant(a) < Instant(b)

----------------------------------------------------------------------------
(* model.py: PostMetadata.  idx is not a constructor argument and starts   *)
(* at 0; url is an opaque identifier, 0 standing for a missing href.       *)

PostMetadata(u, t, dt) == [idx |-> 0, published_at |-> dt, url |-> u, title |-> t]

----------------------------------------------------------------------------
(* The listing pages the server may answer with.  A page body is the       *)
(* sequence of its post containers; a container holds the text of the      *)
(* title node, the date string and the href of the link node.              *)

Container(t, raw, h) == [title |-> t, dt |-> raw, href |-> h]

\* hrefs are distinct over pages, bodies and containers
Href(p, b, i) == (p * 100) + (b * 10) + i

\* the bodies a 2xx answer of page p can carry
PageBodyIds == 1..4

\* body 0 is a document whose processing raises
BodyRaises(b) == b = 0

PageBody(p, b) ==
    CASE b = 1 -> << >>
      [] b = 2 -> << Container("t", RawDt("zh", 42, "", TRUE), Href(p, b, 1)),
                     Container("t", RawDt("iso", 34, "Z", TRUE), Href(p, b, 2)) >>
      [] b = 3 -> << Container("t", RawDt("iso", 41, "+08:00", TRUE), Href(p, b, 1)),
                     Container("", RawDt("iso", 50, "Z", TRUE), Href(p, b, 2)),
                     Container("t", RawDt("iso", 35, "Z", TRUE), Href(p, b, 3)),
                     Container("t", RawDt("iso", 36, "Z", TRUE), 0) >>
      [] b = 4 -> << Container("t", RawDt("ymd", 24, "", TRUE), Href(p, b, 1)),
                     Container("t", RawDt("junk", 0, "", TRUE), Href(p, b, 2)),
                     Container("t", RawDt("zh", 40, "", FALSE), Href(p, b, 3)),
                     Container("t", RawDt("ymdhms", 34, "", TRUE), Href(p, b, 4)),
                     Container("t", RawDt("iso", 24, "", TRUE), Href(p, b, 5)),
                     Container("t", RawDt("empty", 0, "", TRUE), Href(p, b, 6)) >>
      [] OTHER -> << >>

----------------------------------------------------------------------------
(* page_crawler.py: extraction, merge, sort and reindex. *)

\* if url and title and published_at: posts.append(PostMetadata(...))
RECURSIVE extract_posts_from_page(_)
extract_posts_from_page(nodes) ==
    IF nodes = << >> THEN << >>
    ELSE LET node == Head(nodes)
             title == node.title
             published_at == extract_datetime(node.dt)
             url == node.href
             rest == extract_posts_from_page(Tail(nodes))
         IN IF url # 0 /\ title # "" /\ published_at.some
            THEN << PostMetadata(url, title, published_at) >> \o rest
            ELSE rest

Reverse(s) == [k \in 1..Len(s) |-> s[Len(s) - k + 1]]

\* a stable ascending sort that only asks "x < y" of its keys, as list.sort
\* does: x goes behind every element that is not greater than it
RECURSIVE InsertAsc(_, _)
InsertAsc(s, x) ==
    IF s = << >> THEN << x >>
    ELSE IF DtLess(x.published_at, s[Len(s)].published_at)
         THEN Append(InsertAsc(SubSeq(s, 1, Len(s) - 1), x), s[Len(s)])
         ELSE Append(s, x)

RECURSIVE StableAsc(_)
StableAsc(s) ==
    IF s = << >> THEN << >>
    ELSE InsertAsc(StableAsc(SubSeq(s, 1, Len(s) - 1)), s[Len(s)])

\* the variant "sorted(posts, key=...)[::-1]": descending, equal keys in
\* reversed input order
sorted_then_reversed(posts) == Reverse(StableAsc(posts))

\* sorted(posts, key=lambda p: p.published_at, reverse=True): the list is
\* reversed, sorted ascending and stable, and reversed again, so that equal
\* keys keep their input order
sorted_reverse(posts) == Reverse(StableAsc(Reverse(posts)))

\* the sort compares a naive with an aware key as soon as both occur
SortRaises(posts) ==
    \E i, j \in 1..Len(posts) :
        CompareRaises(posts[i].published_at, posts[j].published_at)

\* the variant that numbers from 0: "... .idx = i"
RECURSIVE ReindexLoopFromZero(_, _)
ReindexLoopFromZero(sorted_posts, i) ==
    IF i >= Len(sorted_posts) THEN sorted_posts
    ELSE ReindexLoopFromZero(
            [sorted_posts EXCEPT ![(Len(sorted_posts) - i - 1) + 1].idx = i],
            i + 1)

\* for i, post in enumerate(sorted_posts):
\*     sorted_posts[len(sorted_posts) - i - 1].idx = i + 1
\* (i and the subscript are 0-based; sequences here are 1-based)
RECURSIVE ReindexLoop(_, _)
ReindexLoop(sorted_posts, i) ==
    IF i >= Len(sorted_posts) THEN sorted_posts
    ELSE ReindexLoop(
            [sorted_posts EXCEPT ![(Len(sorted_posts) - i - 1) + 1].idx = i + 1],
            i + 1)

sort_and_reindex(posts) == ReindexLoop(sorted_reverse(posts), 0)

\* all_posts: the results of the page tasks, extended in task order
RECURSIVE Flatten(_, _)
Flatten(res, n) ==
    IF n = 0 THEN << >> ELSE Flatten(res, n - 1) \o res[n]

----------------------------------------------------------------------------
(* What one client.get(url) can end in: a response with a status code and  *)
(* a body, or an exception of one of the classes the fetch loops tell      *)
(* apart.                                                                  *)

Response(s, b) == [status |-> s, err |-> "", body |-> b]
Raised(e) == [status |-> 0, err |-> e, body |-> 0]

\* httpx.TimeoutException, httpx.NetworkError, httpx.RemoteProtocolError
TransientErrors == {"TimeoutException"}
\* any other httpx.RequestError (an invalid URL), and any other Exception
OtherErrors == {"RequestError", "Exception"}
\* what processing the body of a response can raise
BodyErrors == {"TypeError", "ParseError"}
\* "except Exception" catches every one of these classes
ExceptionClasses == TransientErrors \cup OtherErrors \cup BodyErrors

\* 200 <= resp.status_code < 300
Is2xx(code) == 200 <= code /\ code < 300

\* the variant that retries every error status
should_retry_any_error(code) == code >= 400

\* main.py: _should_retry_status
should_retry_status(code) == code \in {429, 500, 502, 503, 504}

\* The answers tried for each crawler.  _fetch_post has one branch for every
\* non-2xx status and one handler for every exception, so one status and
\* two exception classes stand for them all.
StatusCodes(k) ==
    IF k = "page" THEN {200, 404, 503}
    ELSE IF k = "post" THEN {200, 503}
    ELSE {200, 404, 429, 503}

ErrorClasses(k) ==
    IF k = "post" THEN {"TimeoutException", "RequestError"}
    ELSE TransientErrors \cup OtherErrors

BodyIds(k) ==
    IF k = "page" THEN PageBodyIds \cup {0}
    ELSE IF k = "post" THEN 0..2
    ELSE {1}

Responses(k) ==
    {Response(s, b) : s \in {c \in StatusCodes(k) : Is2xx(c)}, b \in BodyIds(k)}
    \cup {Response(s, 0) : s \in {c \in StatusCodes(k) : ~Is2xx(c)}}
    \cup {Raised(e) : e \in ErrorClasses(k)}

----------------------------------------------------------------------------
(* The state of one crawl run. *)

VARIABLES
    kind,         \* the crawler class: "page", "post" or "extractor"
    concurrency,  \* constructor argument
    retries,      \* constructor argument
    sem,          \* self._sem: the free slots of the asyncio.Semaphore
    pc,           \* per task: "start", "get" (awaiting client.get),
                  \*           "sleep" (awaiting asyncio.sleep), "done"
    attempt,      \* per task: the loop variable of the fetch loop
    gets,         \* per task: client.get calls issued so far
    sleeps,       \* per task: asyncio.sleep calls issued so far
    hist,         \* per task: what each client.get ended in, in order
    results,      \* per task: what the coroutine returned
    finished,     \* the tasks that have ended, in the order they ended
    crawl,        \* "running", "returned" or "raised"
    output        \* what crawl / execute returned

crawl_vars == << kind, concurrency, retries, sem, pc, attempt, gets, sleeps,
                 hist, results, finished, crawl, output >>

(* The state of one write_jsonl / read_metadata round (store.py). *)

VARIABLES
    objects,      \* the list handed to write_jsonl
    file,         \* the lines of the file, in order
    read_results, \* the local list "results" of read_metadata
    store_pc      \* "idle", "start", "written", "returned" or "raised"

store_vars == << objects, file, read_results, store_pc >>

(* The state of one Post.parse_dom_node call, reached directly or through *)
(* PostCrawler._parse_post (model.py, post_crawler.py).                   *)

VARIABLES
    caller,          \* "parse_dom_node" (called directly) or "_parse_post"
    selectors,       \* self._selectors.content_container
    doc,             \* the document: HTMLParser(html) and its hydration payload
    enable_fallback, \* argument of parse_dom_node
    root,            \* argument of parse_dom_node: the content root
    parser,          \* root.parser: the tree root belongs to
    stack,           \* the pending append_lines calls, next one first
    content_many,
    link_many,
    image_many,
    seen_images,     \* local set of _apply_fallback_strategies
    visits,          \* log: one entry per append_lines call, in call order
    walked,          \* log: the sizes of the three lists when the walk ended
    stages_run,      \* log: the scans of _apply_fallback_strategies entered
    parse_pc         \* "idle", "start", "walk", "fallback1".."fallback4",
                     \* "returned", "none" (returned None) or "raised"

parse_vars == << caller, selectors, doc, enable_fallback, root, parser, stack,
                 content_many, link_many, image_many, seen_images, visits,
                 walked, stages_run, parse_pc >>

vars == << crawl_vars, store_vars, parse_vars >>

\* no crawler object exists
CrawlIdle ==
    /\ kind = "none"
    /\ concurrency = 0
    /\ retries = 0
    /\ sem = 0
    /\ pc = [t \in Tasks |-> "done"]
    /\ finished = << >>
    /\ attempt = [t \in Tasks |-> 0]
    /\ gets = [t \in Tasks |-> 0]
    /\ sleeps = [t \in Tasks |-> 0]
    /\ hist = [t \in Tasks |-> << >>]
    /\ results = [t \in Tasks |-> << >>]
    /\ crawl = "idle"
    /\ output = << >>

\* no file is written or read
StoreIdle ==
    /\ objects = << >>
    /\ file = << >>
    /\ read_results = << >>
    /\ store_pc = "idle"

\* no document is parsed
ParseIdle ==
    /\ caller = "none"
    /\ selectors = << >>
    /\ doc = << >>
    /\ enable_fallback = FALSE
    /\ root = << >>
    /\ parser = << >>
    /\ stack = << >>
    /\ content_many = << >>
    /\ link_many = << >>
    /\ image_many = << >>
    /\ seen_images = {}
    /\ visits = << >>
    /\ walked = << >>
    /\ stages_run = {}
    /\ parse_pc = "idle"

\* PostMetadataExtractor.__init__ rejects concurrency <= 0 and retries < 0;
\* the two crawlers take any value asyncio.Semaphore takes (>= 0).
ConcurrencyArgs(k) ==
    IF k = "extractor" THEN 1..MaxConcurrency ELSE 0..MaxConcurrency

RetriesArgs(k) ==
    IF k = "extractor" THEN 0..MaxRetries ELSE (0 - 1)..MaxRetries

\* the value of a task that has not returned
NoResult(k) ==
    IF k = "page" THEN << >>
    ELSE IF k = "post" THEN [some |-> FALSE, metadata |-> 0]
    ELSE [url |-> 0, ok |-> FALSE, status_code |-> 0, error |-> "pending", post |-> FALSE]

Init ==
    /\ kind \in {"page", "post", "extractor"}
    /\ concurrency \in ConcurrencyArgs(kind)
    /\ retries \in RetriesArgs(kind)
    /\ sem = concurrency
    /\ pc = [t \in Tasks |-> "start"]
    /\ finished = << >>
    /\ attempt = [t \in Tasks |-> 0]
    /\ gets = [t \in Tasks |-> 0]
    /\ sleeps = [t \in Tasks |-> 0]
    /\ hist = [t \in Tasks |-> << >>]
    /\ results = [t \in Tasks |-> NoResult(kind)]
    /\ crawl = "running"
    /\ output = << >>
    /\ StoreIdle
    /\ ParseIdle

\* the variant without the gate
CanAcquireAlways(s) == TRUE

\* async with self._sem: a slot is free
CanAcquire(s) == s > 0

\* the coroutine returns res from inside "async with self._sem"
Return(t, res) ==
    /\ pc' = [pc EXCEPT ![t] = "done"]
    /\ results' = [results EXCEPT ![t] = res]
    /\ finished' = Append(finished, t)
    /\ sem' = sem + 1

\* an exception no handler of the loop catches leaves the coroutine
Propagate(t) ==
    /\ pc' = [pc EXCEPT ![t] = "raised"]
    /\ finished' = Append(finished, t)
    /\ sem' = sem + 1
    /\ UNCHANGED results

\* await asyncio.sleep(...) inside the loop; the slot stays taken
Sleep(t) ==
    /\ pc' = [pc EXCEPT ![t] = "sleep"]
    /\ sleeps' = [sleeps EXCEPT ![t] = @ + 1]
    /\ UNCHANGED << results, sem, finished >>

\* the variant that goes on as soon as one task has ended
\* (asyncio.wait(..., return_when=FIRST_COMPLETED))
GatherFirstCompleted(p) == \E t \in Tasks : p[t] = "done"

\* await asyncio.gather(*tasks) has every result
GatherComplete(p) == \A t \in Tasks : p[t] = "done"

\* await asyncio.gather(*tasks) raises what a task raised
GatherRaises(p) == \E t \in Tasks : p[t] = "raised"

----------------------------------------------------------------------------
(* PageCrawler *)

\* _fetch_page up to its first client.get; with retries + 1 <= 0 the loop
\* body never runs and the coroutine returns [] at once
PageStart(t) ==
    /\ kind = "page"
    /\ pc[t] = "start"
    /\ CanAcquire(sem)
    /\ IF retries + 1 <= 0
       THEN /\ pc' = [pc EXCEPT ![t] = "done"]
            /\ results' = [results EXCEPT ![t] = << >>]
            /\ finished' = Append(finished, t)
            /\ UNCHANGED << sem, gets >>
       ELSE /\ sem' = sem - 1
            /\ pc' = [pc EXCEPT ![t] = "get"]
            /\ gets' = [gets EXCEPT ![t] = @ + 1]
            /\ UNCHANGED << results, finished >>
    /\ UNCHANGED << kind, concurrency, retries, attempt, sleeps, hist, crawl, output >>
    /\ UNCHANGED << store_vars, parse_vars >>

\* any non-2xx status, and the transient errors, are slept on and retried
\* while attempt < self._retries
PageRetries(r) ==
    \/ r.err = "" /\ ~Is2xx(r.status)
    \/ r.err \in TransientErrors

\* the handlers of the try of _fetch_page: the transient tuple, then
\* "except Exception"
PageCatches(e) == e \in TransientErrors \/ e \in ExceptionClasses

\* the body of the loop of _fetch_page after client.get has ended in r
PageResponse(t, r) ==
    /\ kind = "page"
    /\ pc[t] = "get"
    /\ hist' = [hist EXCEPT ![t] = Append(@, r)]
    /\ LET exc == IF r.err # "" THEN r.err
                  ELSE IF Is2xx(r.status) /\ BodyRaises(r.body) THEN "ParseError"
                  ELSE ""
       IN IF exc # "" /\ ~PageCatches(exc)
          THEN Propagate(t) /\ UNCHANGED sleeps
          ELSE IF PageRetries(r)
               THEN IF attempt[t] < retries
                    THEN Sleep(t)
                    ELSE Return(t, << >>) /\ UNCHANGED sleeps
               ELSE IF exc = ""
                    THEN Return(t, extract_posts_from_page(PageBody(t, r.body)))
                         /\ UNCHANGED sleeps
                    ELSE Return(t, << >>) /\ UNCHANGED sleeps
    /\ UNCHANGED << kind, concurrency, retries, attempt, gets, crawl, output >>
    /\ UNCHANGED << store_vars, parse_vars >>

\* the sleep is over: continue with the next attempt
PageWake(t) ==
    /\ kind = "page"
    /\ pc[t] = "sleep"
    /\ attempt' = [attempt EXCEPT ![t] = @ + 1]
    /\ gets' = [gets EXCEPT ![t] = @ + 1]
    /\ pc' = [pc EXCEPT ![t] = "get"]
    /\ UNCHANGED << kind, concurrency, retries, sem, sleeps, hist, results, finished, crawl, output >>
    /\ UNCHANGED << store_vars, parse_vars >>

\* crawl after gather: merge, then sort and reindex (which may raise)
PageCrawlReturn ==
    /\ kind = "page"
    /\ crawl = "running"
    /\ GatherComplete(pc) \/ GatherRaises(pc)
    /\ LET all_posts == Flatten(results, NumTasks)
       IN IF GatherRaises(pc) \/ SortRaises(all_posts)
          THEN crawl' = "raised" /\ UNCHANGED output
          ELSE crawl' = "returned" /\ output' = sort_and_reindex(all_posts)
    /\ UNCHANGED << kind, concurrency, retries, sem, pc, attempt, gets, sleeps, hist, results, finished >>
    /\ UNCHANGED << store_vars, parse_vars >>

----------------------------------------------------------------------------
(* PostCrawler.  Task t fetches the post of the t-th metadata entry.  Body *)
(* 0 is a document whose parsing raises, body 1 one without the content    *)
(* container, body 2 one with it.                                          *)

PyNone == [some |-> FALSE, metadata |-> 0]
Post(m) == [some |-> TRUE, metadata |-> m]

\* _parse_post: None when tree.css_first(content_container) finds nothing
parse_post(b, m) == IF b = 1 THEN PyNone ELSE Post(m)

PostStart(t) ==
    /\ kind = "post"
    /\ pc[t] = "start"
    /\ CanAcquire(sem)
    /\ IF retries + 1 <= 0
       THEN /\ pc' = [pc EXCEPT ![t] = "done"]
            /\ results' = [results EXCEPT ![t] = PyNone]
            /\ finished' = Append(finished, t)
            /\ UNCHANGED << sem, gets >>
       ELSE /\ sem' = sem - 1
            /\ pc' = [pc EXCEPT ![t] = "get"]
            /\ gets' = [gets EXCEPT ![t] = @ + 1]
            /\ UNCHANGED << results, finished >>
    /\ UNCHANGED << kind, concurrency, retries, attempt, sleeps, hist, crawl, output >>
    /\ UNCHANGED << store_vars, parse_vars >>

\* the handler of the try of _fetch_post: "except Exception"
PostCatches(e) == e \in ExceptionClasses

\* the body of the loop of _fetch_post after client.get has ended in r:
\* a non-2xx status goes straight to the next attempt ("continue"), any
\* exception sleeps while attempt < self._retries and then goes on; when the
\* loop runs out the coroutine returns None
PostResponse(t, r) ==
    /\ kind = "post"
    /\ pc[t] = "get"
    /\ hist' = [hist EXCEPT ![t] = Append(@, r)]
    /\ LET exc == IF r.err # "" THEN r.err
                  ELSE IF Is2xx(r.status) /\ BodyRaises(r.body) THEN "ParseError"
                  ELSE ""
       IN IF exc # "" /\ ~PostCatches(exc)
          THEN Propagate(t) /\ UNCHANGED << attempt, gets, sleeps >>
          ELSE IF exc # ""
               THEN IF attempt[t] < retries
                    THEN Sleep(t) /\ UNCHANGED << attempt, gets >>
                    ELSE Return(t, PyNone) /\ UNCHANGED << attempt, gets, sleeps >>
               ELSE IF ~Is2xx(r.status)
                    THEN IF attempt[t] < retries
                         THEN /\ attempt' = [attempt EXCEPT ![t] = @ + 1]
                              /\ gets' = [gets EXCEPT ![t] = @ + 1]
                              /\ UNCHANGED << pc, results, sem, sleeps, finished >>
                         ELSE Return(t, PyNone) /\ UNCHANGED << attempt, gets, sleeps >>
                    ELSE Return(t, parse_post(r.body, t))
                         /\ UNCHANGED << attempt, gets, sleeps >>
    /\ UNCHANGED << kind, concurrency, retries, crawl, output >>
    /\ UNCHANGED << store_vars, parse_vars >>

\* the variant with one attempt counter shared by all the tasks
PostWakeSharedAttempt(t) ==
    /\ kind = "post"
    /\ pc[t] = "sleep"
    /\ attempt' = [u \in Tasks |-> attempt[u] + 1]
    /\ gets' = [gets EXCEPT ![t] = @ + 1]
    /\ pc' = [pc EXCEPT ![t] = "get"]
    /\ UNCHANGED << kind, concurrency, retries, sem, sleeps, hist, results, finished, crawl, output >>
    /\ UNCHANGED << store_vars, parse_vars >>

PostWake(t) ==
    /\ kind = "post"
    /\ pc[t] = "sleep"
    /\ attempt' = [attempt EXCEPT ![t] = @ + 1]
    /\ gets' = [gets EXCEPT ![t] = @ + 1]
    /\ pc' = [pc EXCEPT ![t] = "get"]
    /\ UNCHANGED << kind, concurrency, retries, sem, sleeps, hist, results, finished, crawl, output >>
    /\ UNCHANGED << store_vars, parse_vars >>

\* the variant that returns the gathered list unfiltered
KeepAll(res, n) == [i \in 1..n |-> res[i]]

\* return [post for post in results if post is not None]
RECURSIVE NotNone(_, _)
NotNone(res, n) ==
    IF n = 0 THEN << >>
    ELSE IF res[n].some THEN Append(NotNone(res, n - 1), res[n])
    ELSE NotNone(res, n - 1)

PostCrawlReturn ==
    /\ kind = "post"
    /\ crawl = "running"
    /\ GatherComplete(pc) \/ GatherRaises(pc)
    /\ IF GatherRaises(pc)
       THEN crawl' = "raised" /\ UNCHANGED output
       ELSE crawl' = "returned" /\ output' = NotNone(results, NumTasks)
    /\ UNCHANGED << kind, concurrency, retries, sem, pc, attempt, gets, sleeps, hist, results, finished >>
    /\ UNCHANGED << store_vars, parse_vars >>

----------------------------------------------------------------------------
(* PostMetadataExtractor.  Task t is _fetch_and_extract(client, t, url_t). *)

\* model.py: the keyword arguments the generated PostMetadata.__init__
\* takes (idx is field(init=False))
PostMetadataInit == {"published_at", "url", "title"}

\* a dataclass __init__ raises TypeError for an unexpected or a missing
\* keyword argument
InitRaises(kwargs) == kwargs # PostMetadataInit

\* main.py: _extract_post calls PostMetadata(index=, published_at=, title=, url=)
ExtractPostKwargs == {"index", "published_at", "title", "url"}

\* status_code of 0 and error "" stand for None
ok(url, post, status) ==
    [url |-> url, ok |-> TRUE, status_code |-> status, error |-> "", post |-> post]
fail(url, status, error) ==
    [url |-> url, ok |-> FALSE, status_code |-> status, error |-> error, post |-> FALSE]

\* last_status: the status of the latest response, None before the first
RECURSIVE LastStatus(_)
LastStatus(h) ==
    IF h = << >> THEN 0
    ELSE IF h[Len(h)].err = "" THEN h[Len(h)].status
    ELSE LastStatus(SubSeq(h, 1, Len(h) - 1))

ExtractorStart(t) ==
    /\ kind = "extractor"
    /\ pc[t] = "start"
    /\ CanAcquire(sem)
    /\ sem' = sem - 1
    /\ pc' = [pc EXCEPT ![t] = "get"]
    /\ gets' = [gets EXCEPT ![t] = @ + 1]
    /\ UNCHANGED << kind, concurrency, retries, attempt, sleeps, hist, results, finished, crawl, output >>
    /\ UNCHANGED << store_vars, parse_vars >>

\* the variant without the last handler, "except Exception"
ExtractorCatchesHttpxOnly(e) == e \in TransientErrors \/ e = "RequestError"

\* the handlers of the try of _fetch_and_extract: the transient tuple,
\* httpx.RequestError, then "except Exception"
ExtractorCatches(e) ==
    e \in TransientErrors \/ e = "RequestError" \/ e \in ExceptionClasses

\* the body of the loop of _fetch_and_extract after client.get has ended in r
ExtractorResponse(t, r) ==
    /\ kind = "extractor"
    /\ pc[t] = "get"
    /\ hist' = [hist EXCEPT ![t] = Append(@, r)]
    /\ LET last_status == LastStatus(Append(hist[t], r))
           exc == IF r.err # "" THEN r.err
                  ELSE IF Is2xx(r.status) /\ InitRaises(ExtractPostKwargs)
                       THEN "TypeError"
                  ELSE ""
       IN IF exc = ""
          THEN IF ~Is2xx(r.status)
               THEN IF attempt[t] < retries /\ should_retry_status(r.status)
                    THEN Sleep(t)
                    ELSE Return(t, fail(t, last_status, "HTTPStatusError"))
                         /\ UNCHANGED sleeps
               ELSE Return(t, ok(t, TRUE, r.status)) /\ UNCHANGED sleeps
          ELSE IF ~ExtractorCatches(exc)
               THEN Propagate(t) /\ UNCHANGED sleeps
          ELSE IF exc \in TransientErrors
               THEN IF attempt[t] < retries
                    THEN Sleep(t)
                    ELSE Return(t, fail(t, last_status, exc)) /\ UNCHANGED sleeps
          ELSE IF exc = "RequestError"
               THEN Return(t, fail(t, last_status, exc)) /\ UNCHANGED sleeps
          ELSE Return(t, fail(t, last_status, "UnexpectedError")) /\ UNCHANGED sleeps
    /\ UNCHANGED << kind, concurrency, retries, attempt, gets, crawl, output >>
    /\ UNCHANGED << store_vars, parse_vars >>

ExtractorWake(t) ==
    /\ kind = "extractor"
    /\ pc[t] = "sleep"
    /\ attempt' = [attempt EXCEPT ![t] = @ + 1]
    /\ gets' = [gets EXCEPT ![t] = @ + 1]
    /\ pc' = [pc EXCEPT ![t] = "get"]
    /\ UNCHANGED << kind, concurrency, retries, sem, sleeps, hist, results, finished, crawl, output >>
    /\ UNCHANGED << store_vars, parse_vars >>

\* execute: return await asyncio.gather(*tasks), the results in task order
ExecuteReturn ==
    /\ kind = "extractor"
    /\ crawl = "running"
    /\ GatherComplete(pc) \/ GatherRaises(pc)
    /\ IF GatherRaises(pc)
       THEN crawl' = "raised" /\ UNCHANGED output
       ELSE crawl' = "returned" /\ output' = [t \in Tasks |-> results[t]]
    /\ UNCHANGED << kind, concurrency, retries, sem, pc, attempt, gets, sleeps, hist, results, finished >>
    /\ UNCHANGED << store_vars, parse_vars >>

----------------------------------------------------------------------------
Next ==
    \/ \E t \in Tasks : PageStart(t)
    \/ \E t \in Tasks : \E r \in Responses(kind) : PageResponse(t, r)
    \/ \E t \in Tasks : PageWake(t)
    \/ PageCrawlReturn
    \/ \E t \in Tasks : PostStart(t)
    \/ \E t \in Tasks : \E r \in Responses(kind) : PostResponse(t, r)
    \/ \E t \in Tasks : PostWake(t)
    \/ PostCrawlReturn
    \/ \E t \in Tasks : ExtractorStart(t)
    \/ \E t \in Tasks : \E r \in Responses(kind) : ExtractorResponse(t, r)
    \/ \E t \in Tasks : ExtractorWake(t)
    \/ ExecuteReturn

Spec == Init /\ [][Next]_vars

\* the event loop runs a coroutine that can go on, and every request in
\* flight ends in a response or an error
SpecFair == Spec /\ WF_vars(Next)

----------------------------------------------------------------------------
(* store.py: the JSON Lines file of PostMetadata.  A line is the JSON      *)
(* object json.dumps wrote: its keys, and under published_at the string    *)
(* str(datetime) gives.                                                    *)

\* longest list written
MaxObjects == 2

\* str(dt), which json.dumps(default=str) calls for a datetime:
\* "YYYY-MM-DD HH:MM:SS" followed by "+HH:MM" when dt is aware
str_datetime(dt) ==
    [text |-> "ymdhms",
     wall |-> dt.wall,
     tz |-> IF ~dt.aware THEN "" ELSE IF dt.off = 0 THEN "+00:00" ELSE "+08:00"]

\* datetime.fromisoformat(s) of read_metadata
store_fromisoformat(s) ==
    IF s.tz = "" THEN NaiveDt(s.wall)
    ELSE IF s.tz = "+00:00" THEN AwareDt(s.wall, 0)
    ELSE AwareDt(s.wall, 8)

\* asdict(obj): every field of the dataclass, idx included
asdict(obj) ==
    [idx |-> obj.idx, published_at |-> obj.published_at,
     url |-> obj.url, title |-> obj.title]

\* json.dumps(obj_dict, ensure_ascii=False, default=str) + "\n"
json_dumps(d) == [d EXCEPT !.published_at = str_datetime(@)]

\* json.loads(line), then the conversion of a str published_at
loaded(line) == [line EXCEPT !.published_at = store_fromisoformat(@)]

\* the PostMetadata objects written: built by PostMetadata(...) (idx 0) or
\* taken from a crawl (idx >= 1)
StoredMetadata ==
    {[PostMetadata(u, "t", dt) EXCEPT !.idx = i] :
        u \in 1..2, dt \in {NaiveDt(10), AwareDt(10, 8), AwareDt(11, 0)}, i \in 0..1}

ObjectLists == UNION {[1..n -> StoredMetadata] : n \in 0..MaxObjects}

StoreInit ==
    /\ CrawlIdle
    /\ ParseIdle
    /\ objects \in ObjectLists
    /\ file = << >>
    /\ read_results = << >>
    /\ store_pc = "start"

\* write_jsonl(objects, filename): one line per object, in order (the
\* buffer only batches the writes)
WriteJsonl ==
    /\ store_pc = "start"
    /\ file' = [i \in 1..Len(objects) |-> json_dumps(asdict(objects[i]))]
    /\ store_pc' = "written"
    /\ UNCHANGED << objects, read_results >>
    /\ UNCHANGED << crawl_vars, parse_vars >>

\* one round of "for line in f" of read_metadata: PostMetadata(**data)
\* raises TypeError for a keyword it does not take
ReadLine ==
    /\ store_pc = "written"
    /\ Len(read_results) < Len(file)
    /\ LET data == loaded(file[Len(read_results) + 1])
       IN IF InitRaises(DOMAIN data)
          THEN store_pc' = "raised" /\ UNCHANGED read_results
          ELSE /\ read_results' = Append(read_results,
                                         PostMetadata(data.url, data.title, data.published_at))
               /\ UNCHANGED store_pc
    /\ UNCHANGED << objects, file >>
    /\ UNCHANGED << crawl_vars, parse_vars >>

\* read_metadata returns results at the end of the file
ReadReturn ==
    /\ store_pc = "written"
    /\ Len(read_results) = Len(file)
    /\ store_pc' = "returned"
    /\ UNCHANGED << objects, file, read_results >>
    /\ UNCHANGED << crawl_vars, parse_vars >>

StoreNext == WriteJsonl \/ ReadLine \/ ReadReturn

SpecStore == StoreInit /\ [][StoreNext]_vars

----------------------------------------------------------------------------
(* The documents PostCrawler parses: selectolax trees.  A string (a text,  *)
(* a caption, a file name) is the sequence of its parts; a text node whose *)
(* text is only white space has the stripped text << >>.                   *)

\* most direct children of a content root
MaxChildren == 2

\* the host the document-wide scans keep: "pimg.tw/workatravel" in src
BlogHost == "pimg.tw/workatravel"

\* a URL: the host it names, a number for its path and the extension of
\* its last path segment ("" when it has none)
Url(h, f, e) == [host |-> h, file |-> f, ext |-> e]

\* attributes.get(...) of a missing attribute: None
NoUrl == Url("", 0, "")

Node(t, i, s, h, ti, al, tx, rw, k) ==
    [tag |-> t, id |-> i, src |-> s, href |-> h, title |-> ti, alt |-> al,
     text |-> tx, raw |-> rw, kids |-> k]

\* css_first found nothing: None
NoNode == Node("", "", NoUrl, NoUrl, << >>, << >>, << >>, << >>, << >>)

Img(s, ti, al) == Node("img", "", s, NoUrl, ti, al, << >>, << >>, << >>)
A(h, k) == Node("a", "", NoUrl, h, << >>, << >>, << >>, << >>, k)
El(t, i, k) == Node(t, i, NoUrl, NoUrl, << >>, << >>, << >>, << >>, k)
Text(tx) == Node("-text", "", NoUrl, NoUrl, << >>, << >>, tx, << >>, << >>)
\* a comment whose text holds the <img ...> tags rw
Comment(rw) == Node("-comment", "", NoUrl, NoUrl, << >>, << >>, << >>, rw, << >>)

\* a selector is a tag name or "#" and an id
Matches(node, sel) == node.tag = sel \/ (node.id # "" /\ node.id = sel)

\* node.css(sel): the node itself and its descendants, in document order
RECURSIVE css(_, _), css_many(_, _)
css(node, sel) ==
    (IF Matches(node, sel) THEN << node >> ELSE << >>) \o css_many(node.kids, sel)
css_many(nodes, sel) ==
    IF Len(nodes) = 0 THEN << >>
    ELSE css(Head(nodes), sel) \o css_many(Tail(nodes), sel)

\* node.css_first(sel)
css_first(node, sel) ==
    IF Len(css(node, sel)) = 0 THEN NoNode ELSE css(node, sel)[1]

\* node.text(strip=True): the stripped text parts of the subtree, joined
RECURSIVE text_strip(_), text_many(_)
text_strip(node) ==
    IF node.tag = "-text" THEN node.text ELSE text_many(node.kids)
text_many(nodes) ==
    IF Len(nodes) = 0 THEN << >>
    ELSE text_strip(Head(nodes)) \o text_many(Tail(nodes))

\* Post.iter_direct_children(node): node.child, then .next until None
iter_direct_children(node) == node.kids

\* re.finditer(r"<img[^>]+>", node.html): the tags of the img elements and
\* the tags written inside comments, in document order
RECURSIVE html_img_tags(_), html_img_tags_many(_)
html_img_tags(node) ==
    IF node.tag = "img" THEN << node >>
    ELSE IF node.tag = "-comment" THEN node.raw
    ELSE html_img_tags_many(node.kids)
html_img_tags_many(nodes) ==
    IF Len(nodes) = 0 THEN << >>
    ELSE html_img_tags(Head(nodes)) \o html_img_tags_many(Tail(nodes))

----------------------------------------------------------------------------
(* model.py: Line and the linearizer Post.parse_dom_node.append_lines *)

\* a body is a text, or the href standing in for an empty one
Body(tx, u) == [text |-> tx, href |-> u]

Line(k, b, u) == [kind |-> k, body |-> b, url |-> u]

\* Post.ensure_ext(name, src)
ensure_ext(name, src) ==
    IF src = NoUrl \/ src.ext = "" THEN name
    ELSE IF Len(name) > 0 /\ name[Len(name)] = src.ext THEN name
    ELSE Append(name, src.ext)

\* img.attributes.get("title") or img.attributes.get("alt") or ""
caption(img) == IF Len(img.title) > 0 THEN img.title ELSE img.alt

\* what random.choices(...) may return
Suffixes == {"aaaa", "bbbb"}

\* one round of "for img in images"
image_line(img, suffix) ==
    Line("IMAGE",
         Body(ensure_ext(IF Len(caption(img)) > 0 THEN caption(img)
                         ELSE << "no_alt_", suffix >>, img.src), NoUrl),
         img.src)

\* the (url, body) tuples of the lines that have a url
RECURSIVE Tuples(_)
Tuples(lines) ==
    IF Len(lines) = 0 THEN << >>
    ELSE (IF Head(lines).url # NoUrl
          THEN << << Head(lines).url, Head(lines).body >> >> ELSE << >>)
         \o Tuples(Tail(lines))

\* what one append_lines call appends to content_many, link_many and
\* image_many, and whether it goes on into the children
Step(c, l, i, r) == [content |-> c, links |-> l, images |-> i, recurse |-> r]

\* "if images:" with images = node.css("img")
ImagesBranch(node) == Len(css(node, "img")) > 0

ImagesStep(node, sfx) ==
    LET images == css(node, "img")
        lines == [k \in 1..Len(images) |-> image_line(images[k], sfx[k])]
    IN Step(lines, << >>, Tuples(lines), FALSE)

\* "if link_node and not link_node.css_first("img"):"
LinkBranch(node) ==
    /\ css_first(node, "a") # NoNode
    /\ css_first(css_first(node, "a"), "img") = NoNode

\* the variant of the link branch that goes on to the text branch
LinkThenTextStep(node) ==
    LET link_node == css_first(node, "a")
        line == Line("LINK", Body(text_strip(node), link_node.href), link_node.href)
    IN Step(<< line, Line("TEXT", Body(text_strip(node), NoUrl), NoUrl) >>,
            Tuples(<< line >>), << >>, FALSE)

LinkStep(node) ==
    LET link_node == css_first(node, "a")
        href == link_node.href
        text == IF Len(text_strip(node)) > 0 THEN text_strip(node)
                ELSE text_strip(link_node)
        body == IF Len(text) > 0 THEN Body(text, NoUrl) ELSE Body(<< >>, href)
        line == Line("LINK", body, href)
    IN Step(<< line >>, Tuples(<< line >>), << >>, FALSE)

\* "if text:" with text = node.text(strip=True)
TextBranch(node) == Len(text_strip(node)) > 0

TextStep(node) ==
    Step(<< Line("TEXT", Body(text_strip(node), NoUrl), NoUrl) >>, << >>, << >>, FALSE)

\* the variant that looks for the link before the images
append_lines_link_first(node, sfx) ==
    IF css_first(node, "a") # NoNode THEN LinkStep(node)
    ELSE IF ImagesBranch(node) THEN ImagesStep(node, sfx)
    ELSE IF TextBranch(node) THEN TextStep(node)
    ELSE Step(<< >>, << >>, << >>, TRUE)

\* append_lines(node); sfx[k] is the random suffix drawn for the k-th image
append_lines(node, sfx) ==
    IF ImagesBranch(node) THEN ImagesStep(node, sfx)
    ELSE IF LinkBranch(node) THEN LinkStep(node)
    ELSE IF TextBranch(node) THEN TextStep(node)
    ELSE Step(<< >>, << >>, << >>, TRUE)

\* the calls "for child in cls.iter_direct_children(node): append_lines(child)"
\* will make, each with the path of its node below the root
Calls(node, path) ==
    [k \in 1..Len(iter_direct_children(node)) |->
        [node |-> iter_direct_children(node)[k], path |-> Append(path, k)]]

----------------------------------------------------------------------------
(* model.py: Post._apply_fallback_strategies *)

\* the variant of the loop body without the seen_images test
RECURSIVE recover_unseen(_, _, _)
recover_unseen(cands, acc, host_only) ==
    IF Len(cands) = 0 THEN acc
    ELSE LET c == Head(cands)
             body == Body(ensure_ext(IF Len(caption(c)) > 0 THEN caption(c)
                                     ELSE << "(no alt)" >>, c.src), NoUrl)
         IN IF c.src = NoUrl \/ (host_only /\ c.src.host # BlogHost)
            THEN recover_unseen(Tail(cands), acc, host_only)
            ELSE recover_unseen(Tail(cands),
                                [seen |-> acc.seen \cup {c.src},
                                 images |-> Append(acc.images, << c.src, body >>),
                                 content |-> Append(acc.content, Line("IMAGE", body, c.src))],
                                host_only)

\* the loop body the four scans share: skip a candidate without src, one
\* already seen and, in the document-wide scans, one of another host
RECURSIVE recover(_, _, _)
recover(cands, acc, host_only) ==
    IF Len(cands) = 0 THEN acc
    ELSE LET c == Head(cands)
             body == Body(ensure_ext(IF Len(caption(c)) > 0 THEN caption(c)
                                     ELSE << "(no alt)" >>, c.src), NoUrl)
         IN IF \/ c.src = NoUrl
               \/ c.src \in acc.seen
               \/ host_only /\ c.src.host # BlogHost
            THEN recover(Tail(cands), acc, host_only)
            ELSE recover(Tail(cands),
                         [seen |-> acc.seen \cup {c.src},
                          images |-> Append(acc.images, << c.src, body >>),
                          content |-> Append(acc.content, Line("IMAGE", body, c.src))],
                         host_only)

----------------------------------------------------------------------------
(* The inputs of one parse. *)

\* content_container as main() passes it (a str) and as PostCrawlerSelectors
\* declares it (a list of str)
Str(s) == [type |-> "str", str |-> s, list |-> << >>]
List(l) == [type |-> "list", str |-> "", list |-> l]

\* self._extract_hydrated_content(tree): returns None, raises, or returns
\* the HTML that HTMLParser wraps in <div id="article-content-inner">
NotHydrated == [status |-> "none", node |-> NoNode]
HydrationRaises == [status |-> "raises", node |-> NoNode]
Hydrated(k) == [status |-> "html", node |-> El("div", "#article-content-inner", k)]

\* HTMLParser(html): the body and what the scripts carry
Document(sections, h) == [body |-> El("body", "", sections), hydrated |-> h]

U1 == Url(BlogHost, 1, ".jpg")
U2 == Url("other.example", 2, "")
U3 == Url(BlogHost, 3, ".jpg")
U4 == Url(BlogHost, 4, ".png")
H1 == Url("blog.example", 11, "")
H2 == Url("blog.example", 12, "")

Img1 == Img(U1, << >>, << "cat" >>)
Img2 == Img(U2, << >>, << >>)
Img0 == Img(NoUrl, << "pic", ".jpg" >>, << >>)
Tx == Text(<< "x" >>)
Tw == Text(<< >>)
Cm == Comment(<< Img(U3, << >>, << "raw" >>) >>)

Leaves == {Img1, Img2, Img0, Tx, Tw, Cm}

Links ==
    {A(H1, k) : k \in {<< >>, << Img1 >>, << Tx >>}}
    \cup {A(NoUrl, << >>), A(NoUrl, << Tx >>)}

Paragraphs ==
    {El("p", "", << a, b >>) :
        a \in {Img1, Tx, A(H2, << Text(<< "y" >>) >>)},
        b \in {Img1, A(H2, << Text(<< "y" >>) >>)}}
    \cup {El("p", "", << El("span", "", << Tw, Cm >>) >>),
          El("p", "", << A(H1, << Img1 >>) >>)}

\* the subtrees a content root is built from
Subtrees == Leaves \cup Links \cup Paragraphs

ChildLists == UNION {[1..n -> Subtrees] : n \in 0..MaxChildren}

\* what the document holds after the content root
Asides ==
    {<< >>,
     << El("div", "#b", << Img(U4, << >>, << >>), Img(U4, << >>, << >>) >>) >>,
     << El("div", "#b", << Img2 >>) >>,
     << El("div", "#b", << Comment(<< Img(U4, << "t" >>, << >>) >>) >>) >>}

\* the documents of the direct calls: parse_dom_node is handed the first
\* section, a container or a single img element
DirectDocuments ==
    {Document(<< El("div", "#a", k) >> \o aside, NotHydrated) :
        k \in ChildLists, aside \in Asides}
    \cup {Document(<< Img1 >> \o aside, NotHydrated) : aside \in Asides}

\* the documents handed to _parse_post
FetchedDocuments ==
    {Document(secs, h) :
        secs \in UNION {{<< El("div", "#a", k) >>,
                         << El("div", "#b", k) >>,
                         << El("div", "#b", << Tx >>), El("div", "#a", k) >>,
                         << El("div", "#a", k), El("div", "#b", << Img2 >>) >>} :
                        k \in {<< Tx >>, << Img1 >>, << A(H1, << Img1 >>), Tx >>, << Cm >>}},
        h \in {NotHydrated, HydrationRaises, Hydrated(<< Img(U4, << >>, << >>), Tx >>)}}

SelectorArgs ==
    {Str("#a"), Str("#c"), List(<< "#a" >>), List(<< "#c", "#a" >>), List(<< "#b", "#a" >>)}

ParseInit ==
    /\ CrawlIdle
    /\ StoreIdle
    /\ caller \in {"parse_dom_node", "_parse_post"}
    /\ IF caller = "parse_dom_node"
       THEN /\ doc \in DirectDocuments
            /\ enable_fallback \in BOOLEAN
            /\ selectors = Str("")
            /\ root = doc.body.kids[1]
            /\ parser = doc.body
       ELSE /\ doc \in FetchedDocuments
            /\ enable_fallback = FALSE
            /\ selectors \in SelectorArgs
            /\ root = NoNode
            /\ parser = NoNode
    /\ stack = << >>
    /\ content_many = << >>
    /\ link_many = << >>
    /\ image_many = << >>
    /\ seen_images = {}
    /\ visits = << >>
    /\ walked = << >>
    /\ stages_run = {}
    /\ parse_pc = "start"

----------------------------------------------------------------------------
(* PostCrawler._parse_post and Post.parse_dom_node *)

\* HTMLParser.css_first(query) takes a str: any other argument raises
\* TypeError
CssFirstRaises(query) == query.type # "str"

\* _parse_post up to its call of Post.parse_dom_node(content_node, metadata)
ParsePost ==
    /\ caller = "_parse_post"
    /\ parse_pc = "start"
    /\ IF CssFirstRaises(selectors)
       THEN /\ parse_pc' = "raised"
            /\ UNCHANGED << root, parser, stack >>
       ELSE LET content_node == css_first(doc.body, selectors.str)
                has_images == Len(css(content_node, "img")) > 0
                hydrated == ~has_images /\ doc.hydrated.status = "html"
            IN IF content_node = NoNode
               THEN /\ parse_pc' = "none"
                    /\ UNCHANGED << root, parser, stack >>
               ELSE /\ root' = (IF hydrated THEN doc.hydrated.node ELSE content_node)
                    /\ parser' = (IF hydrated THEN El("body", "", << doc.hydrated.node >>)
                                  ELSE doc.body)
                    /\ stack' = Calls(root', << >>)
                    /\ parse_pc' = "walk"
    /\ UNCHANGED << caller, selectors, doc, enable_fallback, content_many, link_many,
                    image_many, seen_images, visits, walked, stages_run >>
    /\ UNCHANGED << crawl_vars, store_vars >>

\* Post.parse_dom_node(root, metadata, enable_fallback) called directly
ParseDomNode ==
    /\ caller = "parse_dom_node"
    /\ parse_pc = "start"
    /\ stack' = Calls(root, << >>)
    /\ parse_pc' = "walk"
    /\ UNCHANGED << caller, selectors, doc, enable_fallback, root, parser, content_many,
                    link_many, image_many, seen_images, visits, walked, stages_run >>
    /\ UNCHANGED << crawl_vars, store_vars >>

\* the next append_lines call
AppendLines ==
    /\ parse_pc = "walk"
    /\ Len(stack) > 0
    /\ LET node == Head(stack).node
           path == Head(stack).path
       IN \E sfx \in [1..Len(css(node, "img")) -> Suffixes] :
            LET step == append_lines(node, sfx)
            IN /\ content_many' = content_many \o step.content
               /\ link_many' = link_many \o step.links
               /\ image_many' = image_many \o step.images
               /\ stack' = (IF step.recurse THEN Calls(node, path) ELSE << >>)
                           \o Tail(stack)
               /\ visits' = Append(visits,
                                   [path |-> path,
                                    at |-> Len(content_many),
                                    kinds |-> [k \in 1..Len(step.content) |->
                                                  step.content[k].kind],
                                    links |-> Len(step.links),
                                    images |-> Len(step.images)])
    /\ UNCHANGED << caller, selectors, doc, enable_fallback, root, parser,
                    seen_images, walked, stages_run, parse_pc >>
    /\ UNCHANGED << crawl_vars, store_vars >>

\* the walk is over: "if enable_fallback:" and, in the chain, the set of
\* the urls image_many holds
WalkReturn ==
    /\ parse_pc = "walk"
    /\ Len(stack) = 0
    /\ walked' = [content |-> content_many, links |-> link_many, images |-> image_many]
    /\ IF enable_fallback
       THEN /\ parse_pc' = "fallback1"
            /\ seen_images' = {image_many[k][1] : k \in 1..Len(image_many)}
       ELSE /\ parse_pc' = "returned"
            /\ UNCHANGED seen_images
    /\ UNCHANGED << caller, selectors, doc, enable_fallback, root, parser, stack,
                    content_many, link_many, image_many, visits, stages_run >>
    /\ UNCHANGED << crawl_vars, store_vars >>

\* one scan of the chain over the candidates cands
Scan(n, cands, host_only) ==
    LET acc == recover(cands,
                       [seen |-> seen_images, images |-> image_many,
                        content |-> content_many],
                       host_only)
    IN /\ seen_images' = acc.seen
       /\ image_many' = acc.images
       /\ content_many' = acc.content
       /\ stages_run' = stages_run \cup {n}

NoScan == UNCHANGED << seen_images, image_many, content_many, stages_run >>

\* for img in root.css("img")
Fallback1 ==
    /\ parse_pc = "fallback1"
    /\ Scan(1, css(root, "img"), FALSE)
    /\ parse_pc' = "fallback2"
    /\ UNCHANGED << caller, selectors, doc, enable_fallback, root, parser, stack,
                    link_many, visits, walked >>
    /\ UNCHANGED << crawl_vars, store_vars >>

\* for img in doc.css("img"), doc = root.parser being an HTMLParser
Fallback2 ==
    /\ parse_pc = "fallback2"
    /\ Scan(2, css(parser, "img"), TRUE)
    /\ parse_pc' = "fallback3"
    /\ UNCHANGED << caller, selectors, doc, enable_fallback, root, parser, stack,
                    link_many, visits, walked >>
    /\ UNCHANGED << crawl_vars, store_vars >>

\* if not image_many: the regular expression over root.html
Fallback3 ==
    /\ parse_pc = "fallback3"
    /\ IF Len(image_many) = 0
       THEN Scan(3, html_img_tags(root), FALSE)
       ELSE NoScan
    /\ parse_pc' = "fallback4"
    /\ UNCHANGED << caller, selectors, doc, enable_fallback, root, parser, stack,
                    link_many, visits, walked >>
    /\ UNCHANGED << crawl_vars, store_vars >>

\* if not image_many: the regular expression over doc.html; then
\* parse_dom_node returns the Post
Fallback4 ==
    /\ parse_pc = "fallback4"
    /\ IF Len(image_many) = 0
       THEN Scan(4, html_img_tags(parser), TRUE)
       ELSE NoScan
    /\ parse_pc' = "returned"
    /\ UNCHANGED << caller, selectors, doc, enable_fallback, root, parser, stack,
                    link_many, visits, walked >>
    /\ UNCHANGED << crawl_vars, store_vars >>

ParseNext ==
    \/ ParsePost
    \/ ParseDomNode
    \/ AppendLines
    \/ WalkReturn
    \/ Fallback1
    \/ Fallback2
    \/ Fallback3
    \/ Fallback4

SpecParse == ParseInit /\ [][ParseNext]_vars

----------------------------------------------------------------------------
(* Properties of PageCrawler.crawl *)

PageReturned == kind = "page" /\ crawl = "returned"

\* the candidates in the answer that ended page p's fetch: those of the body
\* of a 2xx answer, none for every other ending
CandidatesOf(p) ==
    IF hist[p] = << >> THEN << >>
    ELSE LET r == hist[p][Len(hist[p])]
         IN IF r.err = "" /\ Is2xx(r.status) /\ ~BodyRaises(r.body)
            THEN extract_posts_from_page(PageBody(p, r.body))
            ELSE << >>

\* the candidates of all pages in page-number order
MergedCandidates == Flatten([p \in Tasks |-> CandidatesOf(p)], NumTasks)

PositionIn(s, u) == CHOOSE k \in 1..Len(s) : s[k].url = u

SameInstant(a, b) == ~DtLess(a, b) /\ ~DtLess(b, a)

\* C1: in the list crawl returns, the entry at 0-based position k has index
\* k+1 (1-based position k has index k): the newest post has index 1 and the
\* oldest index N.
C1_NewestHasIndexOne ==
    PageReturned => \A k \in 1..Len(output) : output[k].idx = k

\* C2: the index values of the N entries crawl returns are exactly 1..N: no
\* duplicate, no gap, and none left at the construction default 0.
C2_IndexDense ==
    PageReturned =>
        /\ {output[k].idx : k \in 1..Len(output)} = 1..Len(output)
        /\ \A i, j \in 1..Len(output) : output[i].idx = output[j].idx => i = j

C2_Witness ==
    /\ PageReturned
    /\ Len(output) >= 3
    /\ \A p \in Tasks : results[p] # << >>

\* C3: the list crawl returns is ordered by non-increasing published_at, and
\* entries with equal published_at keep their relative order of the merged
\* input (page-number order, then container order within the page).
C3_SortedStable ==
    PageReturned =>
        LET merged == Flatten(results, NumTasks)
        IN \A i, j \in 1..Len(output) :
              i < j =>
                 /\ ~DtLess(output[i].published_at, output[j].published_at)
                 /\ SameInstant(output[i].published_at, output[j].published_at)
                       => PositionIn(merged, output[i].url)
                             < PositionIn(merged, output[j].url)

\* two entries of different pages tie, and the merged input was not in
\* descending order
C3_Witness ==
    /\ PageReturned
    /\ \E i, j \in 1..Len(output) :
          /\ i < j
          /\ SameInstant(output[i].published_at, output[j].published_at)
          /\ output[i].url \div 100 # output[j].url \div 100
    /\ LET merged == Flatten(results, NumTasks)
       IN \E k \in 1..(Len(merged) - 1) :
             DtLess(merged[k].published_at, merged[k + 1].published_at)

\* C4: what crawl ends in is a function of the answers the pages got,
\* whatever the order the page tasks ran and ended in: the candidates are
\* merged in page-number order and sorted and indexed once every task has
\* ended.
C4_Deterministic ==
    (kind = "page" /\ crawl # "running") =>
        IF SortRaises(MergedCandidates)
        THEN crawl = "raised"
        ELSE crawl = "returned" /\ output = sort_and_reindex(MergedCandidates)

\* page 2 ended before page 1 and both contributed
C4_Witness ==
    /\ PageReturned
    /\ finished[1] = NumTasks
    /\ finished[Len(finished)] = 1
    /\ CandidatesOf(1) # << >>
    /\ CandidatesOf(NumTasks) # << >>

\* C5: crawl never raises and returns a best-effort list: a page whose fetch
\* failed contributes nothing and every candidate of every other page is in
\* the result, whatever the pages answered and whatever formats the
\* timestamps were written in.
C5_BestEffortNeverRaises ==
    kind = "page" =>
        /\ crawl # "raised"
        /\ crawl = "returned" =>
              /\ Len(output) = Len(MergedCandidates)
              /\ \A k \in 1..Len(MergedCandidates) :
                    \E m \in 1..Len(output) :
                       /\ output[m].url = MergedCandidates[k].url
                       /\ output[m].published_at = MergedCandidates[k].published_at
                       /\ output[m].title = MergedCandidates[k].title

----------------------------------------------------------------------------
(* Properties of the fetch loops *)

\* the statuses the specification calls retryable
RetryableSet == {429, 500, 502, 503, 504}

RetryableStatus(r) == r.err = "" /\ r.status \in RetryableSet
TerminalStatus(r) == r.err = "" /\ ~Is2xx(r.status) /\ r.status \notin RetryableSet
SuccessStatus(r) == r.err = "" /\ Is2xx(r.status)

\* C6: in _fetch_and_extract a non-2xx status outside 429/500/502/503/504
\* ends the url in a failure result at once, for every retry budget: no
\* sleep and no further GET follow it, so a url whose first answer is such
\* a status fails after exactly one GET.
C6_TerminalStatusFailsAtOnce ==
    kind = "extractor" =>
        \A t \in Tasks : \A i \in 1..Len(hist[t]) :
            TerminalStatus(hist[t][i]) =>
                /\ i = Len(hist[t])
                /\ pc[t] = "done"
                /\ ~results[t].ok
                /\ results[t].status_code = hist[t][i].status
                /\ gets[t] = i
                /\ sleeps[t] = i - 1

\* a 404 as the first answer with the whole retry budget left
C6_Witness ==
    /\ kind = "extractor"
    /\ retries = MaxRetries
    /\ \E t \in Tasks :
          /\ hist[t] = << Response(404, 0) >>
          /\ pc[t] = "done"
          /\ gets[t] = 1
          /\ sleeps[t] = 0

\* C7: in _fetch_and_extract with retry budget R, a url that answers k <= R
\* retryable statuses and then a 2xx ends in a success result carrying the
\* 2xx response, after exactly k+1 GETs and k sleeps.
C7_RetriesThenSuccess ==
    kind = "extractor" =>
        \A t \in Tasks :
            LET n == Len(hist[t])
            IN (/\ pc[t] = "done"
                /\ n >= 1
                /\ \A i \in 1..(n - 1) : RetryableStatus(hist[t][i])
                /\ SuccessStatus(hist[t][n]))
               => /\ results[t].ok
                  /\ results[t].status_code = hist[t][n].status
                  /\ gets[t] = n
                  /\ sleeps[t] = n - 1

\* C8: every _fetch_and_extract ends by returning a record with ok true or
\* false and never raises, whatever its GETs ended in, and execute returns
\* one record per url in input order.
C8_AlwaysAResultRecord ==
    kind = "extractor" =>
        /\ crawl # "raised"
        /\ \A t \in Tasks :
              /\ pc[t] # "raised"
              /\ pc[t] = "done" =>
                    /\ results[t].ok \in BOOLEAN
                    /\ results[t].url = t
                    /\ results[t].error # "pending"
                    /\ results[t].ok <=> results[t].error = ""
        /\ crawl = "returned" =>
              /\ Len(output) = NumTasks
              /\ \A t \in Tasks : output[t] = results[t] /\ output[t].url = t

\* execute has returned; the last url ended first, one url got a 2xx whose
\* extraction raised and one an exception that is no httpx error
C8_Witness ==
    /\ kind = "extractor"
    /\ crawl = "returned"
    /\ finished[1] = NumTasks
    /\ \E t \in Tasks : SuccessStatus(hist[t][Len(hist[t])])
    /\ \E t \in Tasks : hist[t][Len(hist[t])] = Raised("Exception")

\* C9: in _fetch_page a non-2xx status outside the retryable set ends the
\* page at once with an empty result, whatever the retry budget: no sleep
\* and no further GET follow it.
C9_PageTerminalStatusFailsAtOnce ==
    kind = "page" =>
        \A t \in Tasks : \A i \in 1..Len(hist[t]) :
            TerminalStatus(hist[t][i]) =>
                /\ i = Len(hist[t])
                /\ pc[t] = "done"
                /\ results[t] = << >>
                /\ gets[t] = i
                /\ sleeps[t] = i - 1

\* the tasks between acquiring and releasing the gate, and those of them
\* with a GET in flight
Holders == {t \in Tasks : pc[t] \in {"get", "sleep"}}
InFlight == {t \in Tasks : pc[t] = "get"}

\* C10: at every point of a run of each of the three crawlers, at most
\* concurrency tasks are between acquiring and releasing the gate, and so at
\* most concurrency requests are in flight.
C10_GateBound ==
    /\ Cardinality(Holders) <= concurrency
    /\ Cardinality(InFlight) <= concurrency
    /\ sem = concurrency - Cardinality(Holders)

\* the gate of crawler k is full: its only slot is held by a task asleep in
\* its backoff while another task waits to enter
GateFull(k) ==
    /\ kind = k
    /\ concurrency = 1
    /\ \E t, u \in Tasks : pc[t] = "sleep" /\ pc[u] = "start"

C10_Witness == GateFull("page") \/ GateFull("post") \/ GateFull("extractor")

----------------------------------------------------------------------------
(* Properties of PostCrawler.crawl *)

\* the last client.get of post t ended in a 2xx whose document holds the
\* content container and parses
FetchedAndFound(t) ==
    /\ hist[t] # << >>
    /\ SuccessStatus(hist[t][Len(hist[t])])
    /\ hist[t][Len(hist[t])].body = 2

\* C11: PostCrawler.crawl returns exactly the posts whose fetch ended in a
\* 2xx and whose content container was found, in the order of the input
\* list whatever order the fetches ended in; a post that failed is left
\* out, and no failure of a post raises out of crawl.
C11_CollectedInInputOrder ==
    kind = "post" =>
        /\ crawl # "raised"
        /\ \A t \in Tasks : pc[t] # "raised"
        /\ crawl = "returned" =>
              /\ \A i \in 1..Len(output) : output[i].some
              /\ {output[i].metadata : i \in 1..Len(output)}
                    = {t \in Tasks : FetchedAndFound(t)}
              /\ \A i, j \in 1..Len(output) :
                    i < j => output[i].metadata < output[j].metadata

\* every post was fetched and found, and the last one ended first
C11_Witness ==
    /\ kind = "post"
    /\ crawl = "returned"
    /\ finished[1] = NumTasks
    /\ \A t \in Tasks : FetchedAndFound(t)
    /\ Len(output) = NumTasks

\* the last post ended first and was found, the first one failed and is
\* left out
C11_WitnessOmitted ==
    /\ kind = "post"
    /\ crawl = "returned"
    /\ finished[1] = NumTasks
    /\ ~FetchedAndFound(1)
    /\ output = << Post(NumTasks) >>

\* C17: in PostCrawler._fetch_post every retry that follows a retryable
\* status with attempts left is preceded by a backoff sleep: no two
\* consecutive GETs of one url without a sleep between them.
C17_PostRetrySleepsFirst ==
    kind = "post" =>
        \A t \in Tasks : gets[t] <= sleeps[t] + 1

\* C18: in each of the three fetch loops an httpx.RequestError that is no
\* timeout, network or protocol error ends the item at once: it is the
\* item's last GET, no sleep and no retry follow it.
C18_RequestErrorIsTerminal ==
    \A t \in Tasks : \A i \in 1..Len(hist[t]) :
        hist[t][i] = Raised("RequestError") =>
            /\ i = Len(hist[t])
            /\ pc[t] = "done"
            /\ gets[t] = i

\* the GETs a retry budget r allows one item: range(r + 1)
Budget(r) == IF r + 1 > 0 THEN r + 1 ELSE 0

\* C19: in each of the three fetch loops an item with retry budget R is
\* fetched at most R+1 times and ends after at most R+1 attempts, and its
\* attempt counter follows its own GETs alone: nothing another item does
\* changes it.
C19_RetryBudgetPerItem ==
    \A t \in Tasks :
        /\ gets[t] <= Budget(retries)
        /\ Len(hist[t]) <= gets[t]
        /\ gets[t] <= Len(hist[t]) + 1
        /\ attempt[t] = (IF gets[t] = 0 THEN 0 ELSE gets[t] - 1)
        /\ pc[t] \in {"done", "raised"} => Len(hist[t]) = gets[t]

\* crawler k with the largest budget: one item has used all of its GETs
\* while another has not issued its second
BudgetUsedUp(k) ==
    /\ kind = k
    /\ retries = MaxRetries
    /\ \E t, u \in Tasks :
          /\ pc[t] = "done"
          /\ gets[t] = MaxRetries + 1
          /\ gets[u] <= 1
          /\ attempt[u] = 0

C19_Witness == BudgetUsedUp("page") \/ BudgetUsedUp("post") \/ BudgetUsedUp("extractor")

----------------------------------------------------------------------------
(* Properties of the store *)

\* C16: for every list of PostMetadata, read_metadata applied to the file
\* write_jsonl produced returns without error a list of the same length
\* whose entries have the published_at, title and url of the originals, in
\* the same order.
C16_RoundTrip ==
    /\ store_pc # "raised"
    /\ store_pc = "returned" =>
          /\ Len(read_results) = Len(objects)
          /\ \A i \in 1..Len(objects) :
                /\ read_results[i].published_at = objects[i].published_at
                /\ read_results[i].title = objects[i].title
                /\ read_results[i].url = objects[i].url

----------------------------------------------------------------------------
(* Properties of PostCrawler._parse_post and Post.parse_dom_node *)

\* the selectors of the list that match a node of the document
MatchingSelectors ==
    {k \in 1..Len(selectors.list) : Len(css(doc.body, selectors.list[k])) > 0}

FirstMatching == CHOOSE k \in MatchingSelectors : \A m \in MatchingSelectors : k <= m

\* C12: when _parse_post is given an ordered list of content-container
\* selectors, the content root is the node matched by the first selector of
\* the list that matches a node of the document (or the hydrated content
\* taking its place); the post is dropped only if no selector matches.
C12_FirstMatchingSelectorIsRoot ==
    (caller = "_parse_post" /\ selectors.type = "list" /\ parse_pc # "start") =>
        IF MatchingSelectors # {}
        THEN /\ parse_pc \notin {"none", "raised"}
             /\ root \in {css_first(doc.body, selectors.list[FirstMatching]),
                          doc.hydrated.node}
        ELSE parse_pc \in {"none", "raised"}

\* the subtree holds exactly one image, nested inside its one link
OneImageInOneLink(node) ==
    /\ Len(css(node, "img")) = 1
    /\ Len(css(node, "a")) = 1
    /\ Len(css(css(node, "a")[1], "img")) = 1

\* C13: a direct child of the content root whose subtree holds exactly one
\* image nested inside one link contributes exactly one Image segment and
\* no Link segment, and adds nothing to link_many.
C13_ImageInLinkIsOneImage ==
    \A i \in 1..Len(visits) :
        (/\ Len(visits[i].path) = 1
         /\ OneImageInOneLink(root.kids[visits[i].path[1]]))
        => /\ visits[i].kinds = << "IMAGE" >>
           /\ visits[i].links = 0
           /\ content_many[visits[i].at + 1].kind = "IMAGE"

\* a returned post whose root holds a link around an image and a text
C13_Witness ==
    /\ parse_pc = "returned"
    /\ Len(visits) = MaxChildren
    /\ OneImageInOneLink(root.kids[1])
    /\ visits[1].kinds = << "IMAGE" >>
    /\ Len(link_many) = 0
    /\ Len(image_many) = 1

\* the urls of s, each kept where it is first seen
RECURSIVE FirstSeen(_)
FirstSeen(s) ==
    IF Len(s) = 0 THEN << >>
    ELSE LET rest == FirstSeen(SubSeq(s, 1, Len(s) - 1))
             u == s[Len(s)]
         IN IF \E k \in 1..Len(rest) : rest[k] = u THEN rest ELSE Append(rest, u)

\* the urls of the segments of kind k, in the order of content_many
RECURSIVE UrlsOfKind(_, _)
UrlsOfKind(lines, k) ==
    IF Len(lines) = 0 THEN << >>
    ELSE (IF Head(lines).kind = k /\ Head(lines).url # NoUrl
          THEN << Head(lines).url >> ELSE << >>)
         \o UrlsOfKind(Tail(lines), k)

UrlsOf(pairs) == [k \in 1..Len(pairs) |-> pairs[k][1]]

\* C14: in every Post that parse_dom_node returns, image_many and link_many
\* hold each url at most once, in the order the urls are first seen in the
\* content, also when one src or href occurs several times.
C14_SummariesDeduplicated ==
    parse_pc = "returned" =>
        /\ UrlsOf(image_many) = FirstSeen(UrlsOfKind(content_many, "IMAGE"))
        /\ UrlsOf(link_many) = FirstSeen(UrlsOfKind(content_many, "LINK"))

\* C15: a post that _parse_post parsed went through the fallback chain
\* exactly when its linearization found no image: with no linearized image
\* the scans of the chain ran, and with at least one they did not and the
\* lists are as the walk left them.
C15_FallbackIffNoImages ==
    (caller = "_parse_post" /\ parse_pc = "returned") =>
        /\ Len(walked.images) = 0 => stages_run # {}
        /\ Len(walked.images) > 0 =>
              /\ stages_run = {}
              /\ content_many = walked.content
              /\ image_many = walked.images

\* the node at path p below node
RECURSIVE NodeAt(_, _)
NodeAt(node, p) ==
    IF Len(p) = 0 THEN node ELSE NodeAt(node.kids[Head(p)], Tail(p))

\* p comes before q in depth-first pre-order
PathBefore(p, q) ==
    \E i \in 1..Len(q) :
        /\ \A k \in 1..(i - 1) : k <= Len(p) /\ p[k] = q[k]
        /\ IF i > Len(p) THEN TRUE ELSE p[i] < q[i]

\* the paths the walk has to visit below node: every child, and below a
\* child with no image, link or text its children
RECURSIVE ToVisit(_, _)
ToVisit(node, p) ==
    UNION {{Append(p, k)} \cup
           (IF /\ Len(css(node.kids[k], "img")) = 0
               /\ Len(css(node.kids[k], "a")) = 0
               /\ Len(text_strip(node.kids[k])) = 0
            THEN ToVisit(node.kids[k], Append(p, k)) ELSE {}) :
           k \in 1..Len(node.kids)}

\* C20: every append_lines call makes one decision, in the order images,
\* link, text, recurse: it appends only Image segments (one per image of
\* the subtree), or exactly one Link, or exactly one Text, or nothing and
\* then walks the children; the calls are made in depth-first pre-order
\* and the segments stand in content_many in the order of the calls.
C20_OneDecisionPreOrder ==
    /\ \A i \in 1..Len(visits) :
          LET v == visits[i]
              n == NodeAt(root, v.path)
          IN /\ IF Len(css(n, "img")) > 0
                THEN /\ Len(v.kinds) = Len(css(n, "img"))
                     /\ \A k \in 1..Len(v.kinds) : v.kinds[k] = "IMAGE"
                ELSE IF Len(css(n, "a")) > 0 THEN v.kinds = << "LINK" >>
                ELSE IF Len(text_strip(n)) > 0 THEN v.kinds = << "TEXT" >>
                ELSE v.kinds = << >>
             /\ v.at = (IF i = 1 THEN 0
                        ELSE visits[i - 1].at + Len(visits[i - 1].kinds))
             /\ \A k \in 1..Len(v.kinds) : content_many[v.at + k].kind = v.kinds[k]
    /\ \A i, j \in 1..Len(visits) :
          i < j => PathBefore(visits[i].path, visits[j].path)
    /\ parse_pc \in {"returned", "fallback1"} =>
          {visits[i].path : i \in 1..Len(visits)} = ToVisit(root, << >>)

\* the walk is over: it went down into the children of a subtree with no
\* image, link or text and took the link decision for another subtree
C20_Witness ==
    /\ parse_pc \in {"returned", "fallback1"}
    /\ \E i \in 1..Len(visits) : Len(visits[i].path) > 1
    /\ \E i \in 1..Len(visits) : visits[i].kinds = << "LINK" >>
    /\ Len(visits) > MaxChildren

----------------------------------------------------------------------------
(* Properties of Post._apply_fallback_strategies *)

\* the entries the chain has added to image_many so far
AddedByChain == SubSeq(image_many, Len(walked.images) + 1, Len(image_many))

InChain == parse_pc \in {"fallback1", "fallback2", "fallback3", "fallback4"}

\* C21: in the fallback chain a scan adds an image only if no earlier scan
\* of the chain has added one: once a stage has found an image, no later
\* stage adds another.
C21_LaterStagesAddNothing ==
    [][(InChain /\ Len(image_many') > Len(image_many))
          => Len(image_many) = Len(walked.images)]_vars

\* C22: the scans of the chain share one set of seen urls seeded with the
\* urls of image_many: the entries the chain adds have pairwise distinct
\* urls, none of them a url image_many held before the chain, and the set
\* holds every url of image_many.
C22_ChainAddsEachUrlOnce ==
    (parse_pc \in {"fallback2", "fallback3", "fallback4"}
        \/ (parse_pc = "returned" /\ stages_run # {})) =>
        /\ \A i, j \in 1..Len(AddedByChain) :
              i # j => AddedByChain[i][1] # AddedByChain[j][1]
        /\ \A i \in 1..Len(AddedByChain) :
              \A k \in 1..Len(walked.images) :
                 AddedByChain[i][1] # walked.images[k][1]
        /\ seen_images = {image_many[k][1] : k \in 1..Len(image_many)}

\* the chain is over: the walk had found an image of the blog host that
\* the document-wide scan met again, and that scan added one url although
\* two img elements outside the root carry it
C22_Witness ==
    /\ parse_pc = "returned"
    /\ stages_run # {}
    /\ Len(walked.images) > 0
    /\ \E k \in 1..Len(walked.images) : walked.images[k][1].host = BlogHost
    /\ Len(AddedByChain) = 1
    /\ Len(css(parser, "img")) > Len(css(root, "img")) + 1
    /\ AddedByChain[1][1] = U4

\* C23: every Link and every Image segment of content_many carries a url
\* and every Text segment carries none; so the url of every Image segment
\* is in image_many and the url of every Link segment is in link_many.
C23_SegmentsCarryUrl ==
    \A i \in 1..Len(content_many) :
        /\ content_many[i].kind = "TEXT" => content_many[i].url = NoUrl
        /\ content_many[i].kind = "IMAGE" =>
              /\ content_many[i].url # NoUrl
              /\ \E k \in 1..Len(image_many) : image_many[k][1] = content_many[i].url
        /\ content_many[i].kind = "LINK" =>
              /\ content_many[i].url # NoUrl
              /\ \E k \in 1..Len(link_many) : link_many[k][1] = content_many[i].url

----------------------------------------------------------------------------
(* Termination of the crawlers *)

\* C24: for every concurrency and retries that the PageCrawler and
\* PostCrawler constructors accept, crawl eventually returns (or raises):
\* no task waits on the gate forever.
C24_CrawlTerminates ==
    (kind \in {"page", "post"}) => <>(crawl # "running")

====
